---- MODULE Spec2Model ----
(***************************************************************************)
(* Reservation slot-capacity accounting of the restaurant reservation      *)
(* backend: the reservation handlers of controllers/reservationController, *)
(* the admin reservation handlers of controllers/adminController and the   *)
(* restaurant capacity update, over a shared Reservation collection, with   *)
(* the payment handlers over the Payment collection.                       *)
(* Every handler is an async function; each `await` on the store is a      *)
(* point where another request may run, so a handler is modelled as one    *)
(* action per awaited store operation.                                     *)
(***************************************************************************)
EXTENDS Integers, FiniteSets, Sequences, TLC

(* ------------------------------ bounds --------------------------------- *)
\* concurrent requests in flight
MaxProcs == 2
\* documents ever inserted into the Reservation collection
MaxReservations == 2
\* checkout sessions ever created
MaxSessions == 2

(* ------------------------- program constants --------------------------- *)
\* the literal fallback of the capacity expression
DefaultCapacity == 10

(* ------------------------------ inputs --------------------------------- *)
Procs == 1..MaxProcs
Users == {"u1", "u2", "u3"}
Owners == {"o1"}
Admins == {"a1"}
Actors == Users \cup Owners \cup Admins
\* req.user.role
Role(a) == IF a \in Admins THEN "admin" ELSE IF a \in Owners THEN "owner" ELSE "user"

\* "r1" is a stored restaurant owned by "o1"; "r0" is a well-formed id with no
\* document; BadId is a string mongoose.Types.ObjectId.isValid rejects
RestaurantIds == {"r1"}
NoRestaurantId == "r0"
BadId == "bad"
\* an absent (undefined) body field
Absent == "absent"
Dates == {"d1"}
Times == {"t1", "t2"}
\* 0 stands for a missing (falsy) partySize
PartySizes == {2}
Allowed == {"pending", "confirmed", "completed", "cancelled"}
\* a status value outside the allowed list, as a request may carry
Archived == "archived"
\* a partySize an update may carry
NewPartySize == 4
\* tablesPerSlot values a restaurant is created with
TableCounts == {1, 2}

\* reservation _ids are 1..MaxReservations; 0 is a malformed id and an id not
\* yet handed out is a well-formed id with no document
ReservationIds == 0..MaxReservations

VARIABLES
  restaurants,   \* Restaurant collection: id -> document
  reservations,  \* Reservation collection: set of documents
  nextId,        \* next _id the store hands out
  pc,            \* per request handler: the await it is suspended at
  req,           \* per request handler: req.user, req.params, req.body
  loc,           \* per request handler: its local constants
  resp,          \* per request handler: res.status(...) sent, 0 if none yet
  body,          \* per request handler: the availability figures of res.json
  emits,         \* per request handler: its safeEmit calls and their outcomes
  payments,      \* Payment collection: set of documents
  sessions       \* the checkout sessions Stripe has created

vars == <<restaurants, reservations, nextId, pc, req, loc, resp, body, emits,
          payments, sessions>>

(* ------------------------------ helpers -------------------------------- *)
\* JavaScript values of a capacity field: a number, undefined, null, and the
\* empty string of a blank form field
Number(n) == [type |-> "number", val |-> n]
Undefined == [type |-> "undefined", val |-> 0]
Null == [type |-> "null", val |-> 0]
EmptyString == [type |-> "string", val |-> 0]

\* the tablesPerSlot a restaurant update carries in the specifications that
\* book against a positive capacity
Counts == {Number(n) : n \in TableCounts}

NoReq == [op |-> "none", user |-> "none", restaurant |-> "none", id |-> 0,
          date |-> Absent, time |-> Absent, partySize |-> 0, status |-> Absent,
          tablesPerSlot |-> Undefined, was |-> Absent,
          amount |-> 0, event |-> Absent, session |-> Undefined,
          rejected |-> FALSE]
NoLoc == [capacity |-> 0, slotCount |-> 0, newDate |-> Absent, newTime |-> Absent,
          restaurant |-> "none", loaded |-> Undefined, oldCapacity |-> Undefined]

\* mongoose.Types.ObjectId.isValid on a restaurant id
isValidObjectId(id) == id # BadId
\* mongoose.Types.ObjectId.isValid on a reservation id
isValidReservationId(id) == id # 0

\* Restaurant.findById finds a document
RestaurantExists(rid) == rid \in DOMAIN restaurants /\ restaurants[rid].exists

\* Reservation.findById: the documents with that _id (none or one)
ReservationById(id) == {r \in reservations : r.id = id}

\* the capacity expression of createReservation and updateReservation:
\* (typeof tablesPerSlot === "number" && tablesPerSlot) ||
\* (typeof capacity === "number" && capacity) || 10
resolveCapacity(restaurant) ==
  IF restaurant.tablesPerSlot.type = "number" /\ restaurant.tablesPerSlot.val # 0
    THEN restaurant.tablesPerSlot.val
  ELSE IF restaurant.capacity.type = "number" /\ restaurant.capacity.val # 0
    THEN restaurant.capacity.val
  ELSE DefaultCapacity

\* variant: a slot filter without the status clause
Active_all(r) == TRUE

\* the status clause of the slot filter: status: {$ne: "cancelled"}
Active(r) == r.status # "cancelled"

\* the filter {restaurant, date, time, status: {$ne: "cancelled"}}
SlotFilter(store, rid, date, time) ==
  {r \in store : r.restaurant = rid /\ r.date = date /\ r.time = time /\ Active(r)}

\* Reservation.countDocuments over the slot filter
countDocuments(store, rid, date, time) ==
  Cardinality(SlotFilter(store, rid, date, time))

\* variant: the count without the _id clause
countDocumentsExcluding_all(store, rid, date, time, id) ==
  Cardinality(SlotFilter(store, rid, date, time))

\* the same count with _id: {$ne: id}
countDocumentsExcluding(store, rid, date, time, id) ==
  Cardinality({r \in SlotFilter(store, rid, date, time) : r.id # id})

\* variant: a duplicate lookup with status: "confirmed"
findExisting_confirmed(store, user, rid, date, time) ==
  {r \in SlotFilter(store, rid, date, time) : r.user = user /\ r.status = "confirmed"}

\* Reservation.findOne({user, restaurant, date, time, status: {$ne: "cancelled"}})
findExisting(store, user, rid, date, time) ==
  {r \in SlotFilter(store, rid, date, time) : r.user = user}

\* variant: the comparison slotCount > capacity
SlotFull_strict(slotCount, capacity) == slotCount > capacity

\* the comparison that refuses a slot: slotCount >= capacity
SlotFull(slotCount, capacity) == slotCount >= capacity

\* a request of which only the kind is on record
Kind(op) == [NoReq EXCEPT !.op = op]

\* a refused request of which the actor and the target are on record
Refused(op, userId, id) == [NoReq EXCEPT !.op = op, !.user = userId, !.id = id]

\* a response body without availability figures
NoBody == [capacity |-> 0, booked |-> 0, available |-> 0]

\* res.status(code).json(json) after the safeEmit calls `sent`: the handler
\* ends; `answered` is what stays on record of the request it answered
Answer(p, answered, code, json, sent) ==
  /\ pc' = [pc EXCEPT ![p] = "done"]
  /\ resp' = [resp EXCEPT ![p] = code]
  /\ req' = [req EXCEPT ![p] = answered]
  /\ loc' = [loc EXCEPT ![p] = NoLoc]
  /\ body' = [body EXCEPT ![p] = json]
  /\ emits' = [emits EXCEPT ![p] = sent]

\* res.status(code).json(json) of a handler that made no safeEmit call on record
RespondJson(p, answered, code, json) == Answer(p, answered, code, json, <<>>)

\* res.status(code).json({message}) and the other bodies not on record
Respond(p, answered, code) == RespondJson(p, answered, code, NoBody)

\* the handler suspends at its next await
Await(p, label, request, locals) ==
  /\ pc' = [pc EXCEPT ![p] = label]
  /\ resp' = [resp EXCEPT ![p] = 0]
  /\ req' = [req EXCEPT ![p] = request]
  /\ loc' = [loc EXCEPT ![p] = locals]
  /\ body' = [body EXCEPT ![p] = NoBody]
  /\ emits' = [emits EXCEPT ![p] = <<>>]

\* a handler is free to take a new request
Free(p) == pc[p] \in {"idle", "done"}

\* the modified paths of a loaded reservation document: none
NoPaths == [status |-> Absent, date |-> Absent, time |-> Absent, partySize |-> 0]

\* $set of the modified paths on a stored document
SetPaths(r, paths) ==
  [r EXCEPT !.status = IF paths.status # Absent THEN paths.status ELSE @,
            !.date = IF paths.date # Absent THEN paths.date ELSE @,
            !.time = IF paths.time # Absent THEN paths.time ELSE @,
            !.partySize = IF paths.partySize # 0 THEN paths.partySize ELSE @]

\* document.save() of a loaded reservation: $set of the modified paths on the
\* stored document with that _id
SaveReservation(id, paths) ==
  reservations' = {IF r.id = id THEN SetPaths(r, paths) ELSE r : r \in reservations}

(* ------------------------- socket.js, socketHelper --------------------- *)
\* the condition of the transport when a handler emits: `io` not yet set by
\* initSocket, `io` set, or `io` set with an emit that throws
Transports == {"uninitialized", "initialized", "throwing"}

\* the channel of an emit without a room: every connected client
AllClients == "all"
\* the `room = null` default of safeEmit
NoRoom == "noroom"

\* getIO: throws when io is not set, else returns io
getIO(t) == IF t = "uninitialized" THEN "throw" ELSE t

\* variant: tryGetIO without its try/catch
tryGetIO_uncaught(t) == getIO(t)

\* tryGetIO: getIO() in a try/catch that returns null
tryGetIO(t) == IF getIO(t) = "throw" THEN "null" ELSE getIO(t)

\* the outcome of a call: what it returned, whether it threw instead, and
\* the (event, channel) pairs handed to the transport
Returned(value, sent) == [returns |-> value, raises |-> FALSE, sent |-> sent]
Thrown == [returns |-> FALSE, raises |-> TRUE, sent |-> <<>>]

\* variant: safeEmit without the try/catch around the emit
safeEmit_uncaught(t, eventName, room) ==
  LET io == tryGetIO(t)
  IN IF io = "throw" THEN Thrown
     ELSE IF io = "null" THEN Returned(FALSE, <<>>)
     ELSE IF io = "throwing" THEN Thrown
     ELSE Returned(TRUE, <<[event |-> eventName,
                            channel |-> IF room = NoRoom THEN AllClients ELSE room]>>)

\* safeEmit(eventName, payload, room): tryGetIO() outside the try, then
\* io.to(room).emit or io.emit inside it
safeEmit(t, eventName, room) ==
  LET io == tryGetIO(t)
  IN IF io = "throw" THEN Thrown
     ELSE IF io = "null" THEN Returned(FALSE, <<>>)
     ELSE IF io = "throwing" THEN Returned(FALSE, <<>>)
     ELSE Returned(TRUE, <<[event |-> eventName,
                            channel |-> IF room = NoRoom THEN AllClients ELSE room]>>)

\* a safeEmit call on record: its arguments, the transport it met and its
\* outcome
Call(t, eventName, room) ==
  [event |-> eventName, room |-> room, transport |-> t,
   result |-> safeEmit(t, eventName, room)]

\* the two emits every reservation handler ends with: the global one, then
\* the one to the restaurant's room; `room` is "null" (the populated
\* restaurant is null) when building that room name throws, and `early`
\* tells that the global emit reads the restaurant as well. The result is
\* whether an exception reached the handler's catch, and the calls made.
EmitBoth(t, eventName, room, early) ==
  IF room = "null" /\ early THEN [raises |-> TRUE, calls |-> <<>>]
  ELSE LET first == Call(t, eventName, NoRoom)
       IN IF first.result.raises THEN [raises |-> TRUE, calls |-> <<first>>]
          ELSE IF room = "null" THEN [raises |-> TRUE, calls |-> <<first>>]
          ELSE LET second == Call(t, eventName, room)
               IN [raises |-> second.result.raises, calls |-> <<first, second>>]

\* the end of a handler after its write: the two emits, then res.json with
\* `code`, or the catch's 500 when an exception was thrown on the way
RespondAfterEmits(p, answered, code, emitted) ==
  Answer(p, answered, IF emitted.raises THEN 500 ELSE code, NoBody, emitted.calls)

(* ------------------------------- Init ---------------------------------- *)
Init ==
  /\ restaurants \in [RestaurantIds ->
       {[exists |-> TRUE, owner |-> "o1", tablesPerSlot |-> Number(n),
         capacity |-> Undefined] : n \in TableCounts}]
  /\ reservations = {}
  /\ nextId = 1
  /\ pc = [p \in Procs |-> "idle"]
  /\ req = [p \in Procs |-> NoReq]
  /\ loc = [p \in Procs |-> NoLoc]
  /\ resp = [p \in Procs |-> 0]
  /\ body = [p \in Procs |-> NoBody]
  /\ emits = [p \in Procs |-> <<>>]
  /\ payments = {}
  /\ sessions = {}

(* -------------------------- createReservation -------------------------- *)
\* the awaits of createReservation
CreatePcs == {"create_findOne", "create_count", "create_insert"}

\* field and id validation, then `await Restaurant.findById` and the capacity
createReservation_findRestaurant(p, userId, restaurantId, date, time, partySize) ==
  /\ Free(p)
  /\ IF restaurantId = Absent \/ date = Absent \/ time = Absent \/ partySize = 0
       THEN Respond(p, Kind("create"), 400)
     ELSE IF ~isValidObjectId(restaurantId)
       THEN Respond(p, Kind("create"), 400)
     ELSE IF ~RestaurantExists(restaurantId)
       THEN Respond(p, Kind("create"), 404)
     ELSE Await(p, "create_findOne",
                [NoReq EXCEPT !.op = "create", !.user = userId,
                   !.restaurant = restaurantId, !.date = date, !.time = time,
                   !.partySize = partySize],
                [NoLoc EXCEPT !.capacity = resolveCapacity(restaurants[restaurantId])])
  /\ UNCHANGED <<restaurants, reservations, nextId, payments, sessions>>

\* variant: the slot count compared before the duplicate lookup
createReservation_findOne_afterCount(p) ==
  /\ pc[p] = "create_findOne"
  /\ IF SlotFull(countDocuments(reservations, req[p].restaurant,
                                 req[p].date, req[p].time), loc[p].capacity)
       THEN Respond(p, req[p], 409)
     ELSE IF findExisting(reservations, req[p].user, req[p].restaurant,
                          req[p].date, req[p].time) # {}
       THEN Respond(p, req[p], 400)
       ELSE Await(p, "create_count", req[p], loc[p])
  /\ UNCHANGED <<restaurants, reservations, nextId, payments, sessions>>

\* `await Reservation.findOne`: the same user's active reservation in the slot
createReservation_findOne(p) ==
  /\ pc[p] = "create_findOne"
  /\ IF findExisting(reservations, req[p].user, req[p].restaurant,
                     req[p].date, req[p].time) # {}
       THEN Respond(p, req[p], 400)
       ELSE Await(p, "create_count", req[p], loc[p])
  /\ UNCHANGED <<restaurants, reservations, nextId, payments, sessions>>

\* `await Reservation.countDocuments` and the comparison with the capacity
createReservation_countDocuments(p) ==
  /\ pc[p] = "create_count"
  /\ LET slotCount == countDocuments(reservations, req[p].restaurant,
                                     req[p].date, req[p].time)
     IN IF SlotFull(slotCount, loc[p].capacity)
          THEN Respond(p, req[p], 409)
          ELSE Await(p, "create_insert", req[p],
                     [loc[p] EXCEPT !.slotCount = slotCount])
  /\ UNCHANGED <<restaurants, reservations, nextId, payments, sessions>>

\* variant: a document created as confirmed
NewReservation_confirmed(id, request) ==
  [id |-> id, user |-> request.user, restaurant |-> request.restaurant,
   date |-> request.date, time |-> request.time,
   partySize |-> request.partySize, status |-> "confirmed"]

\* the document Reservation.create stores
NewReservation(id, request) ==
  [id |-> id, user |-> request.user, restaurant |-> request.restaurant,
   date |-> request.date, time |-> request.time,
   partySize |-> request.partySize, status |-> "pending"]

\* variant: an insert that counts the slot again and refuses it when full
createReservation_create_recount(p, t) ==
  /\ pc[p] = "create_insert"
  /\ nextId <= MaxReservations
  /\ IF SlotFull(countDocuments(reservations, req[p].restaurant,
                                 req[p].date, req[p].time), loc[p].capacity)
       THEN /\ Respond(p, req[p], 409)
            /\ UNCHANGED <<reservations, nextId>>
       ELSE /\ reservations' = reservations \cup {NewReservation(nextId, req[p])}
            /\ nextId' = nextId + 1
            /\ RespondAfterEmits(p, req[p], 201,
                 EmitBoth(t, "reservationCreated", req[p].restaurant, FALSE))
  /\ UNCHANGED <<restaurants, payments, sessions>>

\* `await Reservation.create`, the populates, the emits and the 201
createReservation_create(p, t) ==
  /\ pc[p] = "create_insert"
  /\ nextId <= MaxReservations
  /\ reservations' = reservations \cup {NewReservation(nextId, req[p])}
  /\ nextId' = nextId + 1
  /\ RespondAfterEmits(p, req[p], 201,
       EmitBoth(t, "reservationCreated", req[p].restaurant, FALSE))
  /\ UNCHANGED <<restaurants, payments, sessions>>

createReservation(p, users, times) ==
  \/ \E u \in users, r \in RestaurantIds \cup {NoRestaurantId, BadId},
        d \in Dates, t \in times, n \in PartySizes \cup {0} :
       createReservation_findRestaurant(p, u, r, d, t, n)
  \/ createReservation_findOne(p)
  \/ createReservation_countDocuments(p)
  \/ \E t \in Transports : createReservation_create(p, t)

(* ---------------- getMyReservations, getOwnerReservations --------------- *)
\* getMyReservations up to `await Reservation.find({user})`
getMyReservations_request(p, userId) ==
  /\ Free(p)
  /\ Await(p, "listMine_find", [NoReq EXCEPT !.op = "listMine", !.user = userId],
           NoLoc)
  /\ UNCHANGED <<restaurants, reservations, nextId, payments, sessions>>

\* the find settles and res.json(reservations) answers 200
getMyReservations_find(p) ==
  /\ pc[p] = "listMine_find"
  /\ Respond(p, req[p], 200)
  /\ UNCHANGED <<restaurants, reservations, nextId, payments, sessions>>

\* getOwnerReservations up to `await Restaurant.find({owner})`
getOwnerReservations_request(p, ownerId) ==
  /\ Free(p)
  /\ Await(p, "listOwner_findRestaurants",
           [NoReq EXCEPT !.op = "listOwner", !.user = ownerId], NoLoc)
  /\ UNCHANGED <<restaurants, reservations, nextId, payments, sessions>>

\* restIds, then `await Reservation.find({restaurant: {$in: restIds}})`
getOwnerReservations_findRestaurants(p) ==
  /\ pc[p] = "listOwner_findRestaurants"
  /\ Await(p, "listOwner_find", req[p], loc[p])
  /\ UNCHANGED <<restaurants, reservations, nextId, payments, sessions>>

\* the find settles and res.json(reservations) answers 200
getOwnerReservations_find(p) ==
  /\ pc[p] = "listOwner_find"
  /\ Respond(p, req[p], 200)
  /\ UNCHANGED <<restaurants, reservations, nextId, payments, sessions>>

(* -------------------------- cancelReservation -------------------------- *)
\* the actor is the owner of the populated restaurant of the reservation
isRestaurantOwner(r, userId) ==
  RestaurantExists(r.restaurant) /\ restaurants[r.restaurant].owner = userId

\* populate("restaurant"): the restaurant id, or null when it has no document
PopulatedRestaurant(r) ==
  IF RestaurantExists(r.restaurant) THEN r.restaurant ELSE "null"

\* variant: a cancel without the authorization test
MayCancel_anyone(r, userId) == TRUE

\* the authorization test of cancelReservation
MayCancel(r, userId) ==
  r.user = userId \/ isRestaurantOwner(r, userId) \/ Role(userId) = "admin"

\* id validation, `await Reservation.findById(id).populate("restaurant")` and
\* the authorization test
cancelReservation_findById(p, userId, id) ==
  /\ Free(p)
  /\ IF ~isValidReservationId(id)
       THEN Respond(p, Kind("cancel"), 400)
     ELSE IF ReservationById(id) = {}
       THEN Respond(p, Kind("cancel"), 404)
     ELSE LET r == CHOOSE x \in ReservationById(id) : TRUE
          IN IF ~MayCancel(r, userId)
               THEN Respond(p, Refused("cancel", userId, id), 403)
               ELSE Await(p, "cancel_save",
                          [NoReq EXCEPT !.op = "cancel", !.id = id,
                             !.was = r.status],
                          [NoLoc EXCEPT !.restaurant = PopulatedRestaurant(r)])
  /\ UNCHANGED <<restaurants, reservations, nextId, payments, sessions>>

\* variant: a cancel that refuses a completed reservation
cancelReservation_save_guarded(p, t) ==
  /\ pc[p] = "cancel_save"
  /\ IF \E r \in ReservationById(req[p].id) : r.status = "completed"
       THEN /\ Respond(p, req[p], 400)
            /\ UNCHANGED reservations
       ELSE /\ SaveReservation(req[p].id, [NoPaths EXCEPT !.status = "cancelled"])
            /\ RespondAfterEmits(p, req[p], 200,
                 EmitBoth(t, "reservationCancelled", loc[p].restaurant, TRUE))
  /\ UNCHANGED <<restaurants, nextId, payments, sessions>>

\* `reservation.status = "cancelled"; await reservation.save()`, then the emits
\* read reservation.restaurant._id, which throws when the populated restaurant
\* is null: the catch answers 500 after the save
cancelReservation_save(p, t) ==
  /\ pc[p] = "cancel_save"
  /\ SaveReservation(req[p].id, [NoPaths EXCEPT !.status = "cancelled"])
  /\ RespondAfterEmits(p, req[p], 200,
       EmitBoth(t, "reservationCancelled", loc[p].restaurant, TRUE))
  /\ UNCHANGED <<restaurants, nextId, payments, sessions>>

cancelReservation(p, actors) ==
  \/ \E a \in actors, id \in ReservationIds : cancelReservation_findById(p, a, id)
  \/ \E t \in Transports : cancelReservation_save(p, t)

(* ----------------------- updateReservationStatus ----------------------- *)
\* variant: a status update without the allowed-list test
allowedIncludes_any(status) == TRUE

\* allowed.includes(status) of updateReservationStatus
allowedIncludes(status) == status \in Allowed

\* variant: the authorization test of cancelReservation used for the status
MaySetStatus_asCancel(r, userId) ==
  r.user = userId \/ isRestaurantOwner(r, userId) \/ Role(userId) = "admin"

\* the authorization test of updateReservationStatus
MaySetStatus(r, userId) ==
  isRestaurantOwner(r, userId) \/ Role(userId) = "admin"

\* id validation, findById + populate, the authorization test and the
\* allowed.includes(status) test
updateReservationStatus_findById(p, userId, id, status) ==
  /\ Free(p)
  /\ IF ~isValidReservationId(id)
       THEN Respond(p, Kind("status"), 400)
     ELSE IF ReservationById(id) = {}
       THEN Respond(p, Kind("status"), 404)
     ELSE LET r == CHOOSE x \in ReservationById(id) : TRUE
          IN IF ~MaySetStatus(r, userId)
               THEN Respond(p, Refused("status", userId, id), 403)
             ELSE IF ~allowedIncludes(status)
               THEN Respond(p, [Refused("status", userId, id) EXCEPT !.status = status], 400)
             ELSE Await(p, "status_save",
                        [NoReq EXCEPT !.op = "status", !.id = id,
                           !.status = status],
                        [NoLoc EXCEPT !.restaurant = PopulatedRestaurant(r)])
  /\ UNCHANGED <<restaurants, reservations, nextId, payments, sessions>>

\* `reservation.status = status; await reservation.save()`, populate, then the
\* emits read reservation.restaurant._id as in cancelReservation
updateReservationStatus_save(p, t) ==
  /\ pc[p] = "status_save"
  /\ SaveReservation(req[p].id, [NoPaths EXCEPT !.status = req[p].status])
  /\ RespondAfterEmits(p, req[p], 200,
       EmitBoth(t, "reservationStatusChanged", loc[p].restaurant, FALSE))
  /\ UNCHANGED <<restaurants, nextId, payments, sessions>>

updateReservationStatus(p, actors) ==
  \/ \E a \in actors, id \in ReservationIds, s \in Allowed \cup {Archived} :
       updateReservationStatus_findById(p, a, id, s)
  \/ \E t \in Transports : updateReservationStatus_save(p, t)

(* -------------------------- updateReservation -------------------------- *)
\* variant: the authorization test of cancelReservation used for the update
MayUpdate_asCancel(r, userId) ==
  r.user = userId \/ isRestaurantOwner(r, userId) \/ Role(userId) = "admin"

\* the authorization test of updateReservation
MayUpdate(r, userId) == r.user = userId \/ Role(userId) = "admin"

\* variant: the slot checked is the stored one, not the requested one
Coalesce_stored(given, stored) == stored

\* date ?? reservation.date
Coalesce(given, stored) == IF given = Absent THEN stored ELSE given

\* id validation, findById + populate, the authorization test, newDate and
\* newTime; reading reservation.restaurant._id throws when the populated
\* restaurant is null (500)
updateReservation_findById(p, userId, id, date, time, partySize) ==
  /\ Free(p)
  /\ IF ~isValidReservationId(id)
       THEN Respond(p, Kind("update"), 400)
     ELSE IF ReservationById(id) = {}
       THEN Respond(p, Kind("update"), 404)
     ELSE LET r == CHOOSE x \in ReservationById(id) : TRUE
          IN IF ~MayUpdate(r, userId)
               THEN Respond(p, Refused("update", userId, id), 403)
             ELSE IF PopulatedRestaurant(r) = "null"
               THEN Respond(p, Kind("update"), 500)
             ELSE Await(p, "update_findRestaurant",
                        [NoReq EXCEPT !.op = "update", !.id = id,
                           !.date = date, !.time = time, !.partySize = partySize],
                        [NoLoc EXCEPT !.restaurant = r.restaurant,
                           !.newDate = Coalesce(date, r.date),
                           !.newTime = Coalesce(time, r.time)])
  /\ UNCHANGED <<restaurants, reservations, nextId, payments, sessions>>

\* `await Restaurant.findById(reservation.restaurant._id)` and the capacity
updateReservation_findRestaurant(p) ==
  /\ pc[p] = "update_findRestaurant"
  /\ IF ~RestaurantExists(loc[p].restaurant)
       THEN Respond(p, Kind("update"), 404)
       ELSE Await(p, "update_count", req[p],
                  [loc[p] EXCEPT !.capacity =
                     resolveCapacity(restaurants[loc[p].restaurant])])
  /\ UNCHANGED <<restaurants, reservations, nextId, payments, sessions>>

\* `await Reservation.countDocuments` without this reservation, and the
\* comparison with the capacity
updateReservation_countDocuments(p) ==
  /\ pc[p] = "update_count"
  /\ LET slotCount == countDocumentsExcluding(reservations, loc[p].restaurant,
                        loc[p].newDate, loc[p].newTime, req[p].id)
     IN IF SlotFull(slotCount, loc[p].capacity)
          THEN Respond(p, req[p], 409)
          ELSE Await(p, "update_save", req[p],
                     [loc[p] EXCEPT !.slotCount = slotCount])
  /\ UNCHANGED <<restaurants, reservations, nextId, payments, sessions>>

\* variant: an update that sets the status back to pending as well
ApplyDetails_reopening(request) ==
  [NoPaths EXCEPT !.date = request.date, !.time = request.time,
                  !.partySize = request.partySize, !.status = "pending"]

\* `if (date) ...; if (time) ...; if (partySize) ...`
ApplyDetails(request) ==
  [NoPaths EXCEPT !.date = request.date, !.time = request.time,
                  !.partySize = request.partySize]

\* `await reservation.save()`, then the populates and the emits, which read
\* reservation.restaurant._id of the re-populated restaurant
updateReservation_save(p, t) ==
  /\ pc[p] = "update_save"
  /\ SaveReservation(req[p].id, ApplyDetails(req[p]))
  /\ RespondAfterEmits(p, req[p], 200,
       EmitBoth(t, "reservationUpdated",
                IF RestaurantExists(loc[p].restaurant) THEN loc[p].restaurant
                ELSE "null", FALSE))
  /\ UNCHANGED <<restaurants, nextId, payments, sessions>>

updateReservation(p, actors, times, sizes) ==
  \/ \E a \in actors, id \in ReservationIds, d \in Dates \cup {Absent},
        t \in times \cup {Absent}, n \in sizes :
       updateReservation_findById(p, a, id, d, t, n)
  \/ updateReservation_findRestaurant(p)
  \/ updateReservation_countDocuments(p)
  \/ \E t \in Transports : updateReservation_save(p, t)

(* ------------ the try/catch of the reservation handlers ----------------- *)
\* the awaits of the reservation handlers
ReservationPcs ==
  {"create_findOne", "create_count", "create_insert", "listMine_find",
   "listOwner_findRestaurants", "listOwner_find", "cancel_save",
   "update_findRestaurant", "update_count", "update_save", "status_save"}

ReservationOps == {"create", "listMine", "listOwner", "cancel", "update", "status"}

\* variant: a handler without its try/catch, whose rejected await ends it
\* with no response
storeRejects_unhandled(p) ==
  /\ pc[p] \in ReservationPcs
  /\ pc' = [pc EXCEPT ![p] = "crashed"]
  /\ UNCHANGED <<restaurants, reservations, nextId, req, loc, resp, body,
                 emits, payments, sessions>>

\* the store operation a handler awaits rejects (the store is unreachable,
\* the operation times out): nothing is written and the handler's catch
\* answers 500
storeRejects(p) ==
  /\ pc[p] \in ReservationPcs
  /\ Respond(p, [req[p] EXCEPT !.rejected = TRUE], 500)
  /\ UNCHANGED <<restaurants, reservations, nextId, payments, sessions>>

\* the same for the first store operation of a handler
storeRejects_first(p, op) ==
  /\ Free(p)
  /\ Respond(p, [Kind(op) EXCEPT !.rejected = TRUE], 500)
  /\ UNCHANGED <<restaurants, reservations, nextId, payments, sessions>>

\* the continuation of a reservation handler after the await it is
\* suspended at, its emits meeting one of the given transport conditions
Continue(p, transports) ==
  \/ createReservation_findOne(p)
  \/ createReservation_countDocuments(p)
  \/ \E t \in transports : createReservation_create(p, t)
  \/ getMyReservations_find(p)
  \/ getOwnerReservations_findRestaurants(p)
  \/ getOwnerReservations_find(p)
  \/ \E t \in transports : cancelReservation_save(p, t)
  \/ updateReservation_findRestaurant(p)
  \/ updateReservation_countDocuments(p)
  \/ \E t \in transports : updateReservation_save(p, t)
  \/ \E t \in transports : updateReservationStatus_save(p, t)

\* the await a reservation handler is suspended at settles: the operation
\* succeeds and the handler continues, or it rejects
Settle(p, transports) == Continue(p, transports) \/ storeRejects(p)

(* ------------------- admin routes (protect, adminOnly) ------------------ *)
\* cancelReservationByAdmin: id validation and `await Reservation.findById`
cancelReservationByAdmin_findById(p, admin, id) ==
  /\ Free(p)
  /\ IF ~isValidReservationId(id)
       THEN Respond(p, Kind("adminCancel"), 400)
     ELSE IF ReservationById(id) = {}
       THEN Respond(p, Kind("adminCancel"), 404)
     ELSE Await(p, "adminCancel_save",
                [NoReq EXCEPT !.op = "adminCancel", !.id = id],
                [NoLoc EXCEPT !.restaurant =
                   (CHOOSE r \in ReservationById(id) : TRUE).restaurant])
  /\ UNCHANGED <<restaurants, reservations, nextId, payments, sessions>>

\* `reservation.status = "cancelled"; await reservation.save()`
cancelReservationByAdmin_save(p, t) ==
  /\ pc[p] = "adminCancel_save"
  /\ SaveReservation(req[p].id, [NoPaths EXCEPT !.status = "cancelled"])
  /\ RespondAfterEmits(p, Kind("adminCancel"), 200,
       EmitBoth(t, "reservationCancelled", loc[p].restaurant, FALSE))
  /\ UNCHANGED <<restaurants, nextId, payments, sessions>>

\* updateReservationByAdmin: id validation and `await Reservation.findById`
updateReservationByAdmin_findById(p, admin, id, status, date, time, partySize) ==
  /\ Free(p)
  /\ IF ~isValidReservationId(id)
       THEN Respond(p, Kind("adminUpdate"), 400)
     ELSE IF ReservationById(id) = {}
       THEN Respond(p, Kind("adminUpdate"), 404)
     ELSE Await(p, "adminUpdate_save",
                [NoReq EXCEPT !.op = "adminUpdate", !.id = id,
                   !.status = status, !.date = date, !.time = time,
                   !.partySize = partySize],
                [NoLoc EXCEPT !.restaurant =
                   (CHOOSE r \in ReservationById(id) : TRUE).restaurant])
  /\ UNCHANGED <<restaurants, reservations, nextId, payments, sessions>>

\* `if (status) reservation.status = status; if (date) ...` of the admin update
ApplyAdmin(request) ==
  [ApplyDetails(request) EXCEPT !.status = request.status]

\* the four conditional assignments and `await reservation.save()`; the
\* schema's status is a plain String, so any value is stored
updateReservationByAdmin_save(p, t) ==
  /\ pc[p] = "adminUpdate_save"
  /\ SaveReservation(req[p].id, ApplyAdmin(req[p]))
  /\ RespondAfterEmits(p, Kind("adminUpdate"), 200,
       EmitBoth(t, "reservationUpdated", loc[p].restaurant, FALSE))
  /\ UNCHANGED <<restaurants, nextId, payments, sessions>>

cancelReservationByAdmin(p) ==
  \/ \E a \in Admins, id \in ReservationIds : cancelReservationByAdmin_findById(p, a, id)
  \/ \E t \in Transports : cancelReservationByAdmin_save(p, t)

adminReservations(p, times) ==
  \/ cancelReservationByAdmin(p)
  \/ \E a \in Admins, id \in ReservationIds, s \in Allowed \cup {Archived} :
       updateReservationByAdmin_findById(p, a, id, s, Absent, Absent, 0)
  \/ \E a \in Admins, id \in ReservationIds, t \in times :
       updateReservationByAdmin_findById(p, a, id, Absent, Absent, t, 0)
  \/ \E t \in Transports : updateReservationByAdmin_save(p, t)

(* ------------------- updateRestaurant, deleteRestaurant ----------------- *)
\* the authorization test of updateRestaurant and deleteRestaurant:
\* ownerId && ownerId !== userId && req.user.role !== "admin" is refused
MayManage(rid, userId) ==
  restaurants[rid].owner = userId \/ Role(userId) = "admin"

\* the default of the schema path tablesPerSlot
SchemaDefault == 10

\* the tablesPerSlot of a document loaded by Restaurant.findById: Mongoose
\* gives a path that is undefined in the stored document its schema default
\* (null is kept)
Loaded(restaurant) ==
  IF restaurant.tablesPerSlot.type = "undefined" THEN Number(SchemaDefault)
  ELSE restaurant.tablesPerSlot

\* tablesPerSlot ?? capacity ?? fallback, on JavaScript values
Nullish(tablesPerSlot, capacity, fallback) ==
  IF tablesPerSlot.type \notin {"undefined", "null"} THEN tablesPerSlot
  ELSE IF capacity.type \notin {"undefined", "null"} THEN capacity
  ELSE fallback

\* req.body[k] === "" ? undefined : Number(req.body[k]), on a numeric string
ToNumber(given) == IF given = EmptyString THEN Undefined ELSE given

\* the cast of the schema type Number when a path is assigned: "" is null
CastNumber(given) == IF given = EmptyString THEN Null ELSE given

\* a safeEmit call of restaurantCapacityChanged on record, with the capacity
\* of its payload
CapacityCall(t, room, capacity) ==
  [event |-> "restaurantCapacityChanged", room |-> room, transport |-> t,
   result |-> safeEmit(t, "restaurantCapacityChanged", room),
   capacity |-> capacity]

\* the two restaurantCapacityChanged emits, made when `changed` holds
CapacityEmits(t, changed, rid, capacity) ==
  IF changed
    THEN <<CapacityCall(t, NoRoom, capacity), CapacityCall(t, rid, capacity)>>
    ELSE <<>>

\* id validation, `await Restaurant.findById`, the authorization test and
\* oldCapacity = tablesPerSlot ?? capacity ?? 10
updateRestaurant_findById(p, userId, rid, tablesPerSlot) ==
  /\ Free(p)
  /\ IF ~isValidObjectId(rid)
       THEN Respond(p, Kind("restaurant"), 400)
     ELSE IF ~RestaurantExists(rid)
       THEN Respond(p, Kind("restaurant"), 404)
     ELSE IF ~MayManage(rid, userId)
       THEN Respond(p, Kind("restaurant"), 403)
     ELSE Await(p, "restaurant_save",
                [NoReq EXCEPT !.op = "restaurant", !.restaurant = rid,
                   !.tablesPerSlot = tablesPerSlot],
                [NoLoc EXCEPT !.loaded = Loaded(restaurants[rid]),
                   !.oldCapacity =
                     Nullish(Loaded(restaurants[rid]), restaurants[rid].capacity,
                             Number(DefaultCapacity))])
  /\ UNCHANGED <<restaurants, reservations, nextId, payments, sessions>>

\* the assignment of tablesPerSlot when the body carries it, `await
\* restaurant.save()` (which fails when the document is gone), newCapacity =
\* tablesPerSlot ?? capacity ?? oldCapacity, the two restaurantCapacityChanged
\* emits when it differs from oldCapacity, the restaurantUpdated emit (each in
\* its own try/catch) and the 200
updateRestaurant_save(p, t) ==
  /\ pc[p] = "restaurant_save"
  /\ LET rid == req[p].restaurant
         given == req[p].tablesPerSlot
         assigned == IF given.type = "undefined" THEN loc[p].loaded
                     ELSE ToNumber(given)
         newCapacity == Nullish(assigned, restaurants[rid].capacity,
                                loc[p].oldCapacity)
     IN IF ~RestaurantExists(rid)
          THEN /\ Respond(p, req[p], 500)
               /\ UNCHANGED restaurants
          ELSE /\ restaurants' =
                    IF given.type = "undefined" THEN restaurants
                    ELSE [restaurants EXCEPT ![rid].tablesPerSlot = assigned]
               /\ Answer(p, req[p], 200, NoBody,
                    CapacityEmits(t, newCapacity # loc[p].oldCapacity, rid,
                                  newCapacity)
                    \o <<Call(t, "restaurantUpdated", NoRoom)>>)
  /\ UNCHANGED <<reservations, nextId, payments, sessions>>

\* updateRestaurantByAdmin: id validation, `await Restaurant.findById` and
\* oldCapacity = tablesPerSlot ?? capacity ?? null
updateRestaurantByAdmin_findById(p, admin, rid, tablesPerSlot) ==
  /\ Free(p)
  /\ IF ~isValidObjectId(rid)
       THEN Respond(p, Kind("adminRestaurant"), 400)
     ELSE IF ~RestaurantExists(rid)
       THEN Respond(p, Kind("adminRestaurant"), 404)
     ELSE Await(p, "adminRestaurant_save",
                [NoReq EXCEPT !.op = "adminRestaurant", !.user = admin,
                   !.restaurant = rid, !.tablesPerSlot = tablesPerSlot],
                [NoLoc EXCEPT !.loaded = Loaded(restaurants[rid]),
                   !.oldCapacity =
                     Nullish(Loaded(restaurants[rid]), restaurants[rid].capacity,
                             Null)])
  /\ UNCHANGED <<restaurants, reservations, nextId, payments, sessions>>

\* Object.assign(restaurant, req.body), `await restaurant.save()`, newCapacity
\* and the two emits when oldCapacity is not null and newCapacity differs
updateRestaurantByAdmin_save(p, t) ==
  /\ pc[p] = "adminRestaurant_save"
  /\ LET rid == req[p].restaurant
         given == req[p].tablesPerSlot
         assigned == IF given.type = "undefined" THEN loc[p].loaded
                     ELSE CastNumber(given)
         newCapacity == Nullish(assigned, restaurants[rid].capacity,
                                loc[p].oldCapacity)
         emitted == CapacityEmits(t, loc[p].oldCapacity # Null
                                     /\ newCapacity # loc[p].oldCapacity,
                                  rid, newCapacity)
     IN IF ~RestaurantExists(rid)
          THEN /\ Respond(p, req[p], 500)
               /\ UNCHANGED restaurants
          ELSE /\ restaurants' =
                    IF given.type = "undefined" THEN restaurants
                    ELSE [restaurants EXCEPT ![rid].tablesPerSlot = assigned]
               /\ Answer(p, req[p],
                         IF \E i \in 1..Len(emitted) : emitted[i].result.raises
                           THEN 500 ELSE 200,
                         NoBody, emitted)
  /\ UNCHANGED <<reservations, nextId, payments, sessions>>

\* id validation, `await Restaurant.findById` and the authorization test
deleteRestaurant_findById(p, userId, rid) ==
  /\ Free(p)
  /\ IF ~isValidObjectId(rid)
       THEN Respond(p, Kind("delete"), 400)
     ELSE IF ~RestaurantExists(rid)
       THEN Respond(p, Kind("delete"), 404)
     ELSE IF ~MayManage(rid, userId)
       THEN Respond(p, Kind("delete"), 403)
     ELSE Await(p, "restaurant_remove",
                [NoReq EXCEPT !.op = "delete", !.restaurant = rid],
                NoLoc)
  /\ UNCHANGED <<restaurants, reservations, nextId, payments, sessions>>

\* `await restaurant.remove()`: the restaurant document alone is removed, its
\* reservations stay. Document.remove exists only up to Mongoose 6; on a later
\* Mongoose the call throws and the catch answers 500 with nothing removed.
deleteRestaurant_remove(p) ==
  /\ pc[p] = "restaurant_remove"
  /\ \/ /\ restaurants' = [restaurants EXCEPT ![req[p].restaurant].exists = FALSE]
        /\ Respond(p, Kind("delete"), 200)
     \/ /\ UNCHANGED restaurants
        /\ Respond(p, Kind("delete"), 500)
  /\ UNCHANGED <<reservations, nextId, payments, sessions>>

\* deleteRestaurantByAdmin: id validation and `await Restaurant.findById`
deleteRestaurantByAdmin_findById(p, admin, rid) ==
  /\ Free(p)
  /\ IF ~isValidObjectId(rid)
       THEN Respond(p, Kind("adminDelete"), 400)
     ELSE IF ~RestaurantExists(rid)
       THEN Respond(p, Kind("adminDelete"), 404)
     ELSE Await(p, "adminDelete_reservations",
                [NoReq EXCEPT !.op = "adminDelete", !.user = admin,
                   !.restaurant = rid],
                NoLoc)
  /\ UNCHANGED <<restaurants, reservations, nextId, payments, sessions>>

\* `await Reservation.deleteMany({restaurant})`: the reservations stored for
\* the restaurant at this moment are removed
deleteRestaurantByAdmin_deleteReservations(p) ==
  /\ pc[p] = "adminDelete_reservations"
  /\ reservations' = {r \in reservations : r.restaurant # req[p].restaurant}
  /\ Await(p, "adminDelete_reviews", req[p], loc[p])
  /\ UNCHANGED <<restaurants, nextId, payments, sessions>>

\* `await Review.deleteMany({restaurant})`: no reservation or restaurant is
\* touched
deleteRestaurantByAdmin_deleteReviews(p) ==
  /\ pc[p] = "adminDelete_reviews"
  /\ Await(p, "adminDelete_restaurant", req[p], loc[p])
  /\ UNCHANGED <<restaurants, reservations, nextId, payments, sessions>>

\* `await restaurant.deleteOne()`, the restaurantDeleted emit and the 200
deleteRestaurantByAdmin_deleteOne(p, t) ==
  /\ pc[p] = "adminDelete_restaurant"
  /\ restaurants' = [restaurants EXCEPT ![req[p].restaurant].exists = FALSE]
  /\ LET emitted == Call(t, "restaurantDeleted", NoRoom)
     IN Answer(p, req[p], IF emitted.result.raises THEN 500 ELSE 200, NoBody,
               <<emitted>>)
  /\ UNCHANGED <<reservations, nextId, payments, sessions>>

deleteRestaurantByAdmin(p) ==
  \/ \E a \in Admins, rid \in RestaurantIds \cup {NoRestaurantId, BadId} :
       deleteRestaurantByAdmin_findById(p, a, rid)
  \/ deleteRestaurantByAdmin_deleteReservations(p)
  \/ deleteRestaurantByAdmin_deleteReviews(p)
  \/ \E t \in Transports : deleteRestaurantByAdmin_deleteOne(p, t)

updateRestaurant(p, actors, given) ==
  \/ \E a \in actors, rid \in RestaurantIds \cup {NoRestaurantId, BadId},
        v \in given :
       updateRestaurant_findById(p, a, rid, v)
  \/ \E t \in Transports : updateRestaurant_save(p, t)

updateRestaurantByAdmin(p, given) ==
  \/ \E a \in Admins, rid \in RestaurantIds \cup {NoRestaurantId, BadId},
        v \in given :
       updateRestaurantByAdmin_findById(p, a, rid, v)
  \/ \E t \in Transports : updateRestaurantByAdmin_save(p, t)

deleteRestaurant(p, actors) ==
  \/ \E a \in actors, rid \in RestaurantIds \cup {NoRestaurantId, BadId} :
       deleteRestaurant_findById(p, a, rid)
  \/ deleteRestaurant_remove(p)

(* --------------------- createPayment, stripeWebhook -------------------- *)
\* the amount a payment request carries
Amounts == {50}
\* the event types Stripe posts for a checkout session
EventTypes == {"checkout.session.completed", "checkout.session.expired"}

\* session.id of the n-th checkout session Stripe creates
SessionId(n) == [type |-> "string", val |-> n]

\* the document Payment.create stores from {user, reservation, amount,
\* status: "pending"}: the path paymentId is not among them
NewPayment(id, request) ==
  [id |-> id, user |-> request.user, reservation |-> request.id,
   amount |-> request.amount, status |-> "pending", paymentId |-> Undefined]

\* `await Reservation.findById(reservationId)`; the id is not validated, so a
\* malformed one makes findById throw and the catch answers 500
createPayment_findById(p, userId, reservationId, amount) ==
  /\ Free(p)
  /\ IF ~isValidReservationId(reservationId)
       THEN Respond(p, Kind("payment"), 500)
     ELSE IF ReservationById(reservationId) = {}
       THEN Respond(p, Kind("payment"), 404)
     ELSE Await(p, "payment_session",
                [NoReq EXCEPT !.op = "payment", !.user = userId,
                   !.id = reservationId, !.amount = amount],
                NoLoc)
  /\ UNCHANGED <<restaurants, reservations, nextId, payments, sessions>>

\* `await stripe.checkout.sessions.create`: Stripe creates a session under a
\* fresh id, or the call fails and the catch answers 500
createPayment_sessionsCreate(p) ==
  /\ pc[p] = "payment_session"
  /\ \/ /\ Cardinality(sessions) < MaxSessions
        /\ LET id == SessionId(Cardinality(sessions) + 1)
           IN /\ sessions' = sessions \cup {[id |-> id, payment |-> 0, paid |-> FALSE]}
              /\ Await(p, "payment_create", [req[p] EXCEPT !.session = id], loc[p])
     \/ /\ Respond(p, req[p], 500)
        /\ UNCHANGED sessions
  /\ UNCHANGED <<restaurants, reservations, nextId, payments>>

\* `await Payment.create` and res.json({id: session.id, payment}); the session
\* keeps on record the payment the response paired it with
createPayment_create(p) ==
  /\ pc[p] = "payment_create"
  /\ LET id == Cardinality(payments) + 1
     IN /\ payments' = payments \cup {NewPayment(id, req[p])}
        /\ sessions' = {IF s.id = req[p].session THEN [s EXCEPT !.payment = id]
                        ELSE s : s \in sessions}
  /\ Respond(p, req[p], 200)
  /\ UNCHANGED <<restaurants, reservations, nextId>>

\* the customer pays the checkout session the response named
checkout(id) ==
  /\ \E s \in sessions : s.id = id /\ s.payment # 0 /\ ~s.paid
  /\ sessions' = {IF s.id = id THEN [s EXCEPT !.paid = TRUE] ELSE s : s \in sessions}
  /\ UNCHANGED <<restaurants, reservations, nextId, pc, req, loc, resp, body,
                 emits, payments>>

\* Payment.findOneAndUpdate({paymentId: id}, {status: "completed"}): the
\* first document whose paymentId is that id, if there is one
findOneAndUpdate(store, id) ==
  LET found == {d \in store : d.paymentId = id}
  IN IF found = {} THEN store
     ELSE LET first == CHOOSE d \in found : \A e \in found : d.id <= e.id
          IN (store \ {first}) \cup {[first EXCEPT !.status = "completed"]}

\* the webhook receives an event Stripe posts for a session: any other type
\* than checkout.session.completed is answered at once
stripeWebhook_receive(p, type, id) ==
  /\ Free(p)
  /\ \E s \in sessions :
       s.id = id /\ (type = "checkout.session.completed" => s.paid)
  /\ IF type = "checkout.session.completed"
       THEN Await(p, "webhook_update",
                  [NoReq EXCEPT !.op = "webhook", !.event = type, !.session = id],
                  NoLoc)
       ELSE Respond(p, [NoReq EXCEPT !.op = "webhook", !.event = type,
                                     !.session = id], 200)
  /\ UNCHANGED <<restaurants, reservations, nextId, payments, sessions>>

\* `await Payment.findOneAndUpdate` and res.json({received: true})
stripeWebhook_findOneAndUpdate(p) ==
  /\ pc[p] = "webhook_update"
  /\ payments' = findOneAndUpdate(payments, req[p].session)
  /\ Respond(p, req[p], 200)
  /\ UNCHANGED <<restaurants, reservations, nextId, sessions>>

createPayment(p, users) ==
  \/ \E u \in users, id \in ReservationIds, a \in Amounts :
       createPayment_findById(p, u, id, a)
  \/ createPayment_sessionsCreate(p)
  \/ createPayment_create(p)

stripeWebhook(p) ==
  \/ \E type \in EventTypes, n \in 1..MaxSessions :
       stripeWebhook_receive(p, type, SessionId(n))
  \/ stripeWebhook_findOneAndUpdate(p)

(* ----------------------------- getAvailability ------------------------ *)
\* the capacity expression of getAvailability:
\* restaurant.tablesPerSlot ?? restaurant.capacity ?? 10
availabilityCapacity(restaurant) ==
  IF restaurant.tablesPerSlot.type = "number" THEN restaurant.tablesPerSlot.val
  ELSE IF restaurant.capacity.type = "number" THEN restaurant.capacity.val
  ELSE DefaultCapacity

\* variant: the difference without the clamp
Max_second(a, b) == b

\* Math.max
Max(a, b) == IF a >= b THEN a ELSE b

\* id and query validation, `await Restaurant.findById` and the capacity
getAvailability_findById(p, rid, date, time) ==
  /\ Free(p)
  /\ IF ~isValidObjectId(rid)
       THEN Respond(p, Kind("availability"), 400)
     ELSE IF date = Absent \/ time = Absent
       THEN Respond(p, Kind("availability"), 400)
     ELSE IF ~RestaurantExists(rid)
       THEN Respond(p, Kind("availability"), 404)
     ELSE Await(p, "availability_count",
                [NoReq EXCEPT !.op = "availability", !.restaurant = rid,
                   !.date = date, !.time = time],
                [NoLoc EXCEPT !.capacity = availabilityCapacity(restaurants[rid])])
  /\ UNCHANGED <<restaurants, reservations, nextId, payments, sessions>>

\* `await Reservation.countDocuments`, available and the 200
getAvailability_countDocuments(p) ==
  /\ pc[p] = "availability_count"
  /\ LET capacity == loc[p].capacity
         booked == countDocuments(reservations, req[p].restaurant,
                                  req[p].date, req[p].time)
         available == Max(0, capacity - booked)
     IN RespondJson(p, req[p], 200,
                    [capacity |-> capacity, booked |-> booked,
                     available |-> available])
  /\ UNCHANGED <<restaurants, reservations, nextId, payments, sessions>>

getAvailability(p, times) ==
  \/ \E rid \in RestaurantIds \cup {NoRestaurantId, BadId},
        d \in Dates \cup {Absent}, t \in times \cup {Absent} :
       getAvailability_findById(p, rid, d, t)
  \/ getAvailability_countDocuments(p)

(* --------------------------- specifications ---------------------------- *)
\* Spec: the reservation handlers, the admin's reservation handlers and the
\* owner's restaurant handlers, requests handled one after another (a single
\* handler is ever in flight), two booking users
SpecUsers == {"u1", "u2"}
SpecActors == SpecUsers \cup Owners \cup Admins
Next ==
  \/ createReservation(1, SpecUsers, Times)
  \/ cancelReservation(1, SpecActors)
  \/ updateReservation(1, SpecActors, Times, {0})
  \/ updateReservationStatus(1, SpecActors)
  \/ adminReservations(1, Times)
  \/ updateRestaurant(1, SpecActors, Counts)
  \/ deleteRestaurant(1, SpecActors)

Spec == Init /\ [][Next]_vars

\* SpecBooking: booking, cancelling and capacity changes, requests handled one
\* after another, three booking users
NextBooking ==
  \/ createReservation(1, Users, Times)
  \/ cancelReservation(1, Actors)
  \/ updateRestaurant(1, Owners, Counts)

SpecBooking == Init /\ [][NextBooking]_vars

\* SpecRace: concurrent create requests for one slot
RaceUsers == {"u1", "u2"}
RaceTimes == {"t1"}
NextRace == \E p \in Procs : createReservation(p, RaceUsers, RaceTimes)

SpecRace == Init /\ [][NextRace]_vars

\* SpecAuth: who may cancel and who may set the status, over reservations
\* whose restaurant may have been deleted; requests handled one after another
NextAuth ==
  \/ createReservation(1, SpecUsers, RaceTimes)
  \/ cancelReservation(1, SpecActors)
  \/ updateReservationStatus(1, SpecActors)
  \/ deleteRestaurant(1, Owners)

SpecAuth == Init /\ [][NextAuth]_vars

\* SpecAvailability: availability queries between bookings, cancellations and
\* capacity changes; requests handled one after another
NextAvailability ==
  \/ createReservation(1, SpecUsers, RaceTimes)
  \/ cancelReservation(1, SpecUsers)
  \/ updateRestaurant(1, Owners, Counts)
  \/ getAvailability(1, RaceTimes)

SpecAvailability == Init /\ [][NextAvailability]_vars

\* SpecNotify: the four reservation operations under every condition of the
\* transport, over reservations whose restaurant may have been deleted;
\* requests handled one after another
NextNotify ==
  \/ createReservation(1, SpecUsers, RaceTimes)
  \/ cancelReservation(1, SpecUsers)
  \/ updateReservationStatus(1, Owners)
  \/ updateReservation(1, SpecUsers, RaceTimes, {0})
  \/ deleteRestaurant(1, Owners)

SpecNotify == Init /\ [][NextNotify]_vars

\* SpecCancel: cancelling, by its parties and by the admin route, reservations
\* of every status; requests handled one after another
NextCancel ==
  \/ createReservation(1, RaceUsers, RaceTimes)
  \/ cancelReservation(1, SpecActors)
  \/ cancelReservationByAdmin(1)
  \/ updateReservationStatus(1, Owners)

SpecCancel == Init /\ [][NextCancel]_vars

\* SpecDetailsAuth: who may update the details of a reservation; requests
\* handled one after another
NextDetailsAuth ==
  \/ createReservation(1, RaceUsers, RaceTimes)
  \/ updateReservation(1, SpecActors, RaceTimes, {NewPartySize})

SpecDetailsAuth == Init /\ [][NextDetailsAuth]_vars

\* SpecStatus: who may set the status, over the reservations of one booking
\* user whose restaurant may have been deleted; requests handled one after
\* another
NextStatus ==
  \/ createReservation(1, {"u1"}, RaceTimes)
  \/ updateReservationStatus(1, SpecActors)
  \/ deleteRestaurant(1, Owners)

SpecStatus == Init /\ [][NextStatus]_vars

\* SpecDetails: booking and the user's update of date, time and party size;
\* requests handled one after another
NextDetails ==
  \/ createReservation(1, SpecUsers, Times)
  \/ updateReservation(1, SpecActors, Times, {0, NewPartySize})

SpecDetails == Init /\ [][NextDetails]_vars

\* SpecCapacity: the owner's and the admin's restaurant update with every
\* kind of tablesPerSlot a body may carry (absent, blank, negative, zero,
\* positive), between bookings, updates of details and availability queries;
\* requests handled one after another
Given == {Undefined, EmptyString} \cup {Number(n) : n \in {-1, 0, 1, 2}}
NextCapacity ==
  \/ createReservation(1, {"u1"}, RaceTimes)
  \/ updateReservation(1, {"u1"}, RaceTimes, {NewPartySize})
  \/ updateRestaurant(1, Owners, Given)
  \/ updateRestaurantByAdmin(1, Given)
  \/ getAvailability(1, RaceTimes)

SpecCapacity == Init /\ [][NextCapacity]_vars

\* SpecOrder: create requests with every kind of body against a slot that may
\* be full and may hold the requesting user's reservation; requests handled
\* one after another
NextOrder ==
  \/ createReservation(1, RaceUsers, RaceTimes)
  \/ cancelReservation(1, RaceUsers)
  \/ deleteRestaurant(1, Owners)

SpecOrder == Init /\ [][NextOrder]_vars

\* SpecFrame: a user's bookings, cancellations and updates of details;
\* requests handled one after another
NextFrame ==
  \/ createReservation(1, {"u1"}, Times)
  \/ cancelReservation(1, {"u1"})
  \/ updateReservation(1, {"u1"}, Times, {0, NewPartySize})

SpecFrame == Init /\ [][NextFrame]_vars

\* SpecDelete: concurrent bookings and deletions of a restaurant, by its
\* owner through the restaurant routes and by an admin through the admin
\* routes
NextDelete ==
  \E p \in Procs :
    \/ createReservation(p, {"u1"}, RaceTimes)
    \/ deleteRestaurant(p, Owners)
    \/ deleteRestaurantByAdmin(p)

SpecDelete == Init /\ [][NextDelete]_vars

\* SpecPayment: bookings, payments of them, the customers' checkouts and the
\* events Stripe posts to the webhook; requests handled one after another
NextPayment ==
  \/ createReservation(1, {"u1"}, RaceTimes)
  \/ createPayment(1, {"u1"})
  \/ \E n \in 1..MaxSessions : checkout(SessionId(n))
  \/ stripeWebhook(1)

SpecPayment == Init /\ [][NextPayment]_vars

\* SpecLive: concurrent reservation requests of every kind over a store whose
\* operations may fail and a transport that fails every delivery; the event
\* loop runs the continuation of every await that settles, and every await
\* settles. A create is admitted while the collection has room for the
\* documents of the creates in flight.
FailingTransports == {"throwing"}
NextLive ==
  \E p \in Procs :
    \/ /\ nextId + Cardinality({q \in Procs : pc[q] \in CreatePcs}) <= MaxReservations
       /\ \E r \in RestaurantIds \cup {BadId} :
            createReservation_findRestaurant(p, "u1", r, "d1", "t1", 2)
    \/ getMyReservations_request(p, "u1")
    \/ getOwnerReservations_request(p, "o1")
    \/ cancelReservation_findById(p, "u1", 1)
    \/ updateReservation_findById(p, "u1", 1, Absent, "t1", 0)
    \/ updateReservationStatus_findById(p, "o1", 1, "confirmed")
    \/ \E op \in ReservationOps : storeRejects_first(p, op)
    \/ Settle(p, FailingTransports)

SpecLive ==
  Init /\ [][NextLive]_vars /\ \A p \in Procs : WF_vars(Settle(p, FailingTransports))

(* ======================= properties of the handlers ==================== *)
\* the reservations of a slot that are not cancelled
Booked(store, rid, date, time) ==
  {r \in store : r.restaurant = rid /\ r.date = date /\ r.time = time
                 /\ r.status # "cancelled"}

\* the cancelled reservations of a slot
Cancelled(store, rid, date, time) ==
  {r \in store : r.restaurant = rid /\ r.date = date /\ r.time = time
                 /\ r.status = "cancelled"}

\* the capacity of a stored restaurant
CapacityOf(rid) == resolveCapacity(restaurants[rid])

\* a create request past the duplicate check sends its response in this step
CreateEnds(p) == pc[p] \in {"create_count", "create_insert"} /\ pc'[p] = "done"

\* C1: with requests handled one after another, a create by a user with no
\* reservation in the slot of a restaurant of capacity N is answered 201 and
\* stores its reservation while fewer than N non-cancelled reservations hold
\* the slot (so the first N from an empty slot succeed), and is answered 409
\* and stores nothing once N hold it (the (N+1)th).
C1_FirstNThenRefused ==
  [][\A p \in Procs : CreateEnds(p) =>
       LET booked == Cardinality(Booked(reservations, req[p].restaurant,
                                        req[p].date, req[p].time))
       IN IF booked < CapacityOf(req[p].restaurant)
            THEN /\ resp'[p] = 201
                 /\ \E r \in reservations' \ reservations :
                      /\ reservations' = reservations \cup {r}
                      /\ r.user = req[p].user /\ r.restaurant = req[p].restaurant
                      /\ r.date = req[p].date /\ r.time = req[p].time
            ELSE resp'[p] = 409 /\ reservations' = reservations]_vars

\* C1 witness: a slot of capacity 2 holds the reservations of two distinct
\* users and the create that came next was answered 409
C1_Witness ==
  \E p \in Procs :
    LET booked == Booked(reservations, req[p].restaurant, req[p].date, req[p].time)
    IN /\ pc[p] = "done" /\ req[p].op = "create" /\ resp[p] = 409
       /\ RestaurantExists(req[p].restaurant) /\ CapacityOf(req[p].restaurant) = 2
       /\ Cardinality(booked) = 2
       /\ Cardinality({r.user : r \in booked}) = 2
       /\ \A r \in reservations : r.user # req[p].user

\* C2: in every reachable state the non-cancelled reservations of each
\* (restaurant, date, time) number at most the restaurant's resolved capacity.
C2_NeverOverCapacity ==
  \A rid \in RestaurantIds, d \in Dates, t \in Times :
    RestaurantExists(rid) =>
      Cardinality(Booked(reservations, rid, d, t)) <= CapacityOf(rid)

\* C3: the count and the insert of a create are separate store operations:
\* the insert is answered 201 and adds the reservation on the strength of the
\* slotCount the handler read before (below the capacity), whatever the slot
\* holds by the time of the insert; so two concurrent creates that both read
\* the one free table both succeed, and the witness is the overrun they leave.
C3_InsertRestsOnOwnCount ==
  [][\A p \in Procs :
       (pc[p] = "create_insert" /\ pc'[p] # "create_insert") =>
         /\ loc[p].slotCount < loc[p].capacity
         /\ resp'[p] = 201
         /\ Booked(reservations', req[p].restaurant, req[p].date, req[p].time)
              = Booked(reservations, req[p].restaurant, req[p].date, req[p].time)
                \cup {NewReservation(nextId, req[p])}]_vars

\* C3 witness: two creates by different users were both answered 201 and the
\* slot now holds one reservation more than the capacity
C3_Witness ==
  \E p \in Procs, q \in Procs :
    LET booked == Booked(reservations, req[p].restaurant, req[p].date, req[p].time)
    IN /\ pc[p] = "done" /\ req[p].op = "create" /\ resp[p] = 201
       /\ pc[q] = "done" /\ req[q].op = "create" /\ resp[q] = 201
       /\ req[p].user # req[q].user
       /\ req[q].restaurant = req[p].restaurant
       /\ req[q].date = req[p].date /\ req[q].time = req[p].time
       /\ Cardinality(booked) = CapacityOf(req[p].restaurant) + 1
       /\ {req[p].user, req[q].user} \subseteq {r.user : r \in booked}

\* C4: with requests handled one after another, a create into a slot that
\* holds cancelled reservations, by a user with no non-cancelled reservation
\* there, is never refused while the non-cancelled ones number less than the
\* capacity: it is answered 201 and the booked count rises by one (back to N
\* when one of N was cancelled).
C4_CancelledFreesTable ==
  [][\A p \in Procs :
       pc[p] \in CreatePcs =>
         LET rid == req[p].restaurant
             booked == Booked(reservations, rid, req[p].date, req[p].time)
         IN (/\ Cancelled(reservations, rid, req[p].date, req[p].time) # {}
             /\ \A r \in booked : r.user # req[p].user
             /\ Cardinality(booked) < CapacityOf(rid)
             /\ pc'[p] = "done")
            => /\ resp'[p] = 201
               /\ Cardinality(Booked(reservations', rid, req[p].date, req[p].time))
                    = Cardinality(booked) + 1]_vars

\* C4 witness: a create was answered 201 in a slot that holds a cancelled
\* reservation and is booked to capacity again
C4_Witness ==
  \E p \in Procs :
    LET rid == req[p].restaurant
        booked == Booked(reservations, rid, req[p].date, req[p].time)
    IN /\ pc[p] = "done" /\ req[p].op = "create" /\ resp[p] = 201
       /\ Cancelled(reservations, rid, req[p].date, req[p].time) # {}
       /\ Cardinality(booked) = CapacityOf(rid)
       /\ \E r \in booked : r.user = req[p].user /\ r.id = nextId - 1

\* C5: in every reachable state a user holds at most one non-cancelled
\* reservation for a (restaurant, date, time).
C5_OnePerUserAndSlot ==
  \A r1, r2 \in reservations :
    (/\ r1.user = r2.user /\ r1.restaurant = r2.restaurant
     /\ r1.date = r2.date /\ r1.time = r2.time
     /\ r1.status # "cancelled" /\ r2.status # "cancelled") => r1.id = r2.id

\* C6: with requests handled one after another, a create by a user who holds
\* a non-cancelled reservation for the same (restaurant, date, time) never
\* gets past the duplicate check: it is answered 400 there and the stored
\* reservations are unchanged.
C6_DuplicateRefused ==
  [][\A p \in Procs :
       (/\ pc[p] \in CreatePcs
        /\ \E r \in Booked(reservations, req[p].restaurant, req[p].date, req[p].time) :
             r.user = req[p].user)
       => /\ pc[p] = "create_findOne"
          /\ pc'[p] = "done" /\ resp'[p] = 400
          /\ reservations' = reservations]_vars

\* C6 witness: a create was answered 400 for a slot in which its user holds a
\* non-cancelled reservation
C6_Witness ==
  \E p \in Procs :
    /\ pc[p] = "done" /\ req[p].op = "create" /\ resp[p] = 400
    /\ \E r \in Booked(reservations, req[p].restaurant, req[p].date, req[p].time) :
         r.user = req[p].user

\* the moves of the reservation state machine: pending to confirmed,
\* completed or cancelled, confirmed to completed or cancelled, none out of
\* cancelled or completed
LegalMove(old, new) ==
  \/ old = new
  \/ old = "pending" /\ new \in {"confirmed", "completed", "cancelled"}
  \/ old = "confirmed" /\ new \in {"completed", "cancelled"}

\* C7: no operation moves a reservation out of cancelled or completed, and a
\* pending or confirmed one only along the state machine.
C7_StatusMachine ==
  [][\A r \in reservations : \A r2 \in reservations' :
       r2.id = r.id => LegalMove(r.status, r2.status)]_vars

\* C8: in every reachable state every stored status is one of pending,
\* confirmed, completed, cancelled.
C8_StatusAllowed ==
  \A r \in reservations : r.status \in {"pending", "confirmed", "completed", "cancelled"}

\* the actor is the reservation's user
IsUserOf(a, r) == a = r.user

\* the actor owns the restaurant the reservation is for
IsOwnerOf(a, r) ==
  RestaurantExists(r.restaurant) /\ restaurants[r.restaurant].owner = a

\* C9: a cancel request by an actor who is neither the reservation's user,
\* nor the owner of its restaurant, nor an admin can only be answered 403,
\* with the stored reservations unchanged; so a cancel succeeds only for one
\* of those three.
C9_CancelOnlyByParty ==
  \A p \in Procs : \A a \in Actors : \A r \in reservations :
    (Free(p) /\ ~IsUserOf(a, r) /\ ~IsOwnerOf(a, r) /\ a \notin Admins) =>
      /\ ENABLED cancelReservation_findById(p, a, r.id)
      /\ ~ENABLED (/\ cancelReservation_findById(p, a, r.id)
                   /\ ~(/\ pc'[p] = "done" /\ resp'[p] = 403
                        /\ reservations' = reservations))

\* C9 witness: a cancel by a third party was answered 403 and the reservation
\* it named is still not cancelled
C9_Witness ==
  \E p \in Procs : \E r \in reservations :
    /\ pc[p] = "done" /\ req[p].op = "cancel" /\ resp[p] = 403
    /\ r.id = req[p].id /\ r.status # "cancelled"
    /\ ~IsUserOf(req[p].user, r) /\ ~IsOwnerOf(req[p].user, r)
    /\ req[p].user \notin Admins

\* C10: an update-status request by an actor who is neither the owner of the
\* reservation's restaurant nor an admin, the reservation's own user included,
\* can only be answered 403, with the stored reservations unchanged, whatever
\* status it asks for.
C10_StatusOnlyByOwnerOrAdmin ==
  \A p \in Procs : \A a \in Actors : \A r \in reservations :
    \A s \in Allowed \cup {Archived} :
      (Free(p) /\ ~IsOwnerOf(a, r) /\ a \notin Admins) =>
        /\ ENABLED updateReservationStatus_findById(p, a, r.id, s)
        /\ ~ENABLED (/\ updateReservationStatus_findById(p, a, r.id, s)
                     /\ ~(/\ pc'[p] = "done" /\ resp'[p] = 403
                          /\ reservations' = reservations))

\* C10 witness: an update-status by the reservation's own user was answered
\* 403 and the reservation is still pending
C10_Witness ==
  \E p \in Procs : \E r \in reservations :
    /\ pc[p] = "done" /\ req[p].op = "status" /\ resp[p] = 403
    /\ r.id = req[p].id /\ r.status = "pending"
    /\ IsUserOf(req[p].user, r) /\ ~IsOwnerOf(req[p].user, r)

\* C11 as stated: an update-status request with a status outside the allowed
\* list on an existing reservation can only be answered 400, whoever sends
\* it, with the stored reservations unchanged.
C11_InvalidStatusAlways400 ==
  \A p \in Procs : \A a \in Actors : \A r \in reservations :
    Free(p) =>
      /\ ENABLED updateReservationStatus_findById(p, a, r.id, Archived)
      /\ ~ENABLED (/\ updateReservationStatus_findById(p, a, r.id, Archived)
                   /\ ~(/\ pc'[p] = "done" /\ resp'[p] = 400
                        /\ reservations' = reservations))

\* C11: an update-status request with a status outside the allowed list on
\* an existing reservation can only be answered 400 when the actor is the
\* owner of the reservation's restaurant or an admin, and 403 when the actor
\* is anyone else (the authorization test comes first); the stored
\* reservations are unchanged either way.
C11_InvalidStatusAfterAuth ==
  \A p \in Procs : \A a \in Actors : \A r \in reservations :
    Free(p) =>
      LET code == IF IsOwnerOf(a, r) \/ a \in Admins THEN 400 ELSE 403
      IN /\ ENABLED updateReservationStatus_findById(p, a, r.id, Archived)
         /\ ~ENABLED (/\ updateReservationStatus_findById(p, a, r.id, Archived)
                      /\ ~(/\ pc'[p] = "done" /\ resp'[p] = code
                           /\ reservations' = reservations))

\* C11 witness: the owner's update-status with status "archived" was answered
\* 400 and the reservation it named holds an allowed status
C11_Witness ==
  \E p \in Procs : \E r \in reservations :
    /\ pc[p] = "done" /\ req[p].op = "status" /\ resp[p] = 400
    /\ req[p].status = Archived /\ r.id = req[p].id
    /\ IsOwnerOf(req[p].user, r) /\ r.status \in Allowed

UpdatePcs == {"update_findRestaurant", "update_count", "update_save"}

\* the stored reservation an update-details request in flight names
Target(p) == CHOOSE r \in reservations : r.id = req[p].id

\* the other non-cancelled reservations of the slot an update-details request
\* in flight moves its reservation to
OthersInNewSlot(p) ==
  LET r == Target(p)
  IN Booked(reservations, r.restaurant,
            IF req[p].date = Absent THEN r.date ELSE req[p].date,
            IF req[p].time = Absent THEN r.time ELSE req[p].time) \ {r}

C13_AvailabilityFigures ==
  [][\A p \in Procs :
       pc[p] = "availability_count" /\ pc'[p] # "availability_count" =>
         LET n == Cardinality(Booked(reservations, req[p].restaurant,
                                     req[p].date, req[p].time))
             b == body'[p]
         IN /\ pc'[p] = "done" /\ resp'[p] = 200
            /\ b.booked = n
            /\ b.available = (IF b.capacity - n > 0 THEN b.capacity - n ELSE 0)
            /\ b.available >= 0
            /\ reservations' = reservations]_vars

\* C13 witness: an availability query was answered for a slot booked beyond
\* the capacity, with available 0
C13_Witness ==
  \E p \in Procs :
    /\ pc[p] = "done" /\ req[p].op = "availability" /\ resp[p] = 200
    /\ body[p].booked > body[p].capacity /\ body[p].available = 0
    /\ body[p].booked = Cardinality(Booked(reservations, req[p].restaurant,
                                           req[p].date, req[p].time))

ErrorCodes == {400, 403, 404, 409, 500}

\* C14: with requests handled one after another, a step that sends an error
\* response (400, 403, 404, 409 or 500) leaves the stored reservations as
\* they were; a cancel or update-status answered 500 has changed no status.
C14_ErrorLeavesStore ==
  [][\A p \in Procs :
       (pc'[p] = "done" /\ resp'[p] \in ErrorCodes) =>
         reservations' = reservations]_vars

\* the step of create, cancel, update-details or update-status that writes,
\* emits and responds, under the transport condition t
Finish(p, t) ==
  \/ createReservation_create(p, t)
  \/ cancelReservation_save(p, t)
  \/ updateReservation_save(p, t)
  \/ updateReservationStatus_save(p, t)

\* the stores a finishing step may leave: the store as it is, with the new
\* reservation, or with the named reservation changed
StoresAfter(p) ==
  {reservations, reservations \cup {NewReservation(nextId, req[p])}}
  \cup {{IF r.id = req[p].id THEN SetPaths(r, paths) ELSE r : r \in reservations} :
          paths \in {[NoPaths EXCEPT !.status = "cancelled"],
                     [NoPaths EXCEPT !.status = req[p].status],
                     ApplyDetails(req[p])}}

\* C15: wherever create, cancel, update-details or update-status is about to
\* write and emit, there is one response code and one resulting store that
\* the step yields under every condition of the transport (uninitialized,
\* initialized, throwing on emit), and it yields nothing else; no later step
\* reads what was emitted, so two runs of one request sequence that differ
\* only in the notifier end with equal stores and equal responses.
C15_NotifierIndifferent ==
  \A p \in Procs :
    (\E t \in Transports : ENABLED Finish(p, t)) =>
      \E code \in {200, 201, 500} : \E store \in StoresAfter(p) :
        \A t \in Transports :
          /\ ENABLED Finish(p, t)
          /\ ~ENABLED (/\ Finish(p, t)
                       /\ ~(/\ pc'[p] = "done" /\ resp'[p] = code
                            /\ reservations' = store))

\* C15 witness: a cancel was answered 200 and stored although its emits met
\* a transport that throws and delivered nothing
C15_Witness ==
  \E p \in Procs : \E r \in reservations :
    /\ pc[p] = "done" /\ req[p].op = "cancel" /\ resp[p] = 200
    /\ r.id = req[p].id /\ r.status = "cancelled"
    /\ Len(emits[p]) = 2
    /\ \A i \in 1..2 : /\ emits[p][i].transport = "throwing"
                        /\ ~emits[p][i].result.returns

\* C16: no safeEmit call a handler makes raises; it returns false and hands
\* nothing to the transport when the transport is uninitialized or its emit
\* throws, and it returns true exactly when one emit was made, to the given
\* room, or to all clients when no room was given.
C16_SafeEmitNeverRaises ==
  \A p \in Procs : \A i \in 1..Len(emits[p]) :
    LET c == emits[p][i]
    IN /\ ~c.result.raises
       /\ c.transport \in {"uninitialized", "throwing"} =>
            (~c.result.returns /\ c.result.sent = <<>>)
       /\ c.result.returns <=>
            (/\ c.transport = "initialized"
             /\ c.result.sent =
                  <<[event |-> c.event,
                     channel |-> IF c.room = "noroom" THEN "all" ELSE c.room]>>)

\* C16 witness: one handler's two calls returned true, one emitted to all
\* clients and one to a restaurant's room
C16_Witness ==
  \E p \in Procs :
    /\ Len(emits[p]) = 2
    /\ \A i \in 1..2 : emits[p][i].result.returns
    /\ emits[p][1].result.sent[1].channel = "all"
    /\ emits[p][2].result.sent[1].channel \in RestaurantIds

\* the event each reservation operation publishes
EventOf(op) ==
  IF op = "create" THEN "reservationCreated"
  ELSE IF op = "cancel" THEN "reservationCancelled"
  ELSE IF op = "update" THEN "reservationUpdated"
  ELSE "reservationStatusChanged"

\* the restaurant of the reservation an answered request was about
RestaurantOf(p) ==
  IF req[p].op = "create" THEN req[p].restaurant
  ELSE (CHOOSE r \in reservations : r.id = req[p].id).restaurant

\* the change an answered request asked for is in the store
Persisted(p) ==
  IF req[p].op = "create"
    THEN \E r \in reservations :
           /\ r.id = nextId - 1 /\ r.user = req[p].user
           /\ r.restaurant = req[p].restaurant
           /\ r.date = req[p].date /\ r.time = req[p].time
    ELSE \E r \in reservations :
           /\ r.id = req[p].id
           /\ req[p].op = "cancel" => r.status = "cancelled"
           /\ req[p].op = "status" => r.status = req[p].status
           /\ req[p].op = "update" =>
                /\ req[p].date # Absent => r.date = req[p].date
                /\ req[p].time # Absent => r.time = req[p].time

\* C17: with requests handled one after another, a create, cancel,
\* update-details or update-status that was answered 200 or 201 has made
\* exactly two publish calls with its event, the first to the global channel
\* and the second to the room of the reservation's restaurant, with the
\* change in the store; one that was answered with an error has made none.
C17_PublishedOnSuccessOnly ==
  \A p \in Procs :
    (pc[p] = "done" /\ req[p].op \in {"create", "cancel", "update", "status"}) =>
      IF resp[p] \in {200, 201}
        THEN /\ Persisted(p)
             /\ Len(emits[p]) = 2
             /\ \A i \in 1..2 : emits[p][i].event = EventOf(req[p].op)
             /\ emits[p][1].room = "noroom"
             /\ emits[p][2].room = RestaurantOf(p)
        ELSE emits[p] = <<>>

\* C18: a create answered 201 has added exactly one reservation, under a
\* fresh id, with status pending, the requesting user and the requested
\* restaurant, date, time and partySize; every reservation stored before is
\* still there unmodified. This holds for concurrent creates as well.
C18_CreateAddsOnePending ==
  [][\A p \in Procs :
       (pc[p] # "done" /\ pc'[p] = "done" /\ req[p].op = "create" /\ resp'[p] = 201) =>
         \E r \in reservations' \ reservations :
           /\ reservations' = reservations \cup {r}
           /\ \A old \in reservations : old.id # r.id
           /\ r.status = "pending" /\ r.user = req[p].user
           /\ r.restaurant = req[p].restaurant
           /\ r.date = req[p].date /\ r.time = req[p].time
           /\ r.partySize = req[p].partySize]_vars

\* C18 witness: a create was answered 201; its pending reservation is in the
\* store next to an older one
C18_Witness ==
  \E p \in Procs : \E r \in reservations : \E old \in reservations :
    /\ pc[p] = "done" /\ req[p].op = "create" /\ resp[p] = 201
    /\ r.id = nextId - 1 /\ r.status = "pending" /\ r.user = req[p].user
    /\ r.partySize = req[p].partySize
    /\ old.id < r.id

\* the store with the reservation `id` cancelled and nothing else changed
WithCancelled(id) ==
  {IF r.id = id THEN [r EXCEPT !.status = "cancelled"] ELSE r : r \in reservations}

\* C19: a cancel request by the reservation's user, the owner of its
\* restaurant or an admin on an existing reservation is never refused, and
\* the save it goes on to (that of cancelReservation or of the admin route)
\* leaves that reservation cancelled and every other one as it was, whatever
\* the status before; on a reservation already cancelled the store does not
\* change, so cancelling twice leaves what cancelling once left.
C19_CancelAlwaysCancels ==
  /\ \A p \in Procs : \A a \in Actors : \A r \in reservations :
       (Free(p) /\ (IsUserOf(a, r) \/ IsOwnerOf(a, r) \/ a \in Admins)) =>
         /\ ENABLED cancelReservation_findById(p, a, r.id)
         /\ ~ENABLED (cancelReservation_findById(p, a, r.id)
                      /\ pc'[p] # "cancel_save")
  /\ \A p \in Procs : \A t \in Transports :
       pc[p] \in {"cancel_save", "adminCancel_save"} =>
         /\ ENABLED (cancelReservation_save(p, t) \/ cancelReservationByAdmin_save(p, t))
         /\ ~ENABLED (/\ cancelReservation_save(p, t) \/ cancelReservationByAdmin_save(p, t)
                      /\ ~(/\ pc'[p] = "done"
                           /\ reservations' = WithCancelled(req[p].id)
                           /\ \E r \in reservations' :
                                r.id = req[p].id /\ r.status = "cancelled"
                           /\ (\E r \in reservations :
                                 r.id = req[p].id /\ r.status = "cancelled")
                                => reservations' = reservations))

\* C19 witness: a cancel of a reservation that was already cancelled was
\* answered 200 and the reservation is cancelled
C19_Witness ==
  \E p \in Procs : \E r \in reservations :
    /\ pc[p] = "done" /\ req[p].op = "cancel" /\ resp[p] = 200
    /\ req[p].was = "cancelled"
    /\ r.id = req[p].id /\ r.status = "cancelled"

\* C20: an update-details request by an actor who is neither the
\* reservation's user nor an admin, the owner of its restaurant included, can
\* only be answered 403, with the stored reservations (date, time and
\* partySize among them) unchanged, whatever fields it carries.
C20_UpdateOnlyByUserOrAdmin ==
  \A p \in Procs : \A a \in Actors : \A r \in reservations :
    \A d \in Dates \cup {Absent}, t \in Times \cup {Absent}, n \in {0, NewPartySize} :
      (Free(p) /\ ~IsUserOf(a, r) /\ a \notin Admins) =>
        /\ ENABLED updateReservation_findById(p, a, r.id, d, t, n)
        /\ ~ENABLED (/\ updateReservation_findById(p, a, r.id, d, t, n)
                     /\ ~(/\ pc'[p] = "done" /\ resp'[p] = 403
                          /\ reservations' = reservations))

\* C20 witness: an update-details by the owner of the reservation's
\* restaurant was answered 403
C20_Witness ==
  \E p \in Procs : \E r \in reservations :
    /\ pc[p] = "done" /\ req[p].op = "update" /\ resp[p] = 403
    /\ r.id = req[p].id /\ IsOwnerOf(req[p].user, r) /\ ~IsUserOf(req[p].user, r)

\* the restaurantCapacityChanged calls among the safeEmit calls of a handler
CapacityChanged(calls) ==
  LET IsCapacityChanged(c) == c.event = "restaurantCapacityChanged"
  IN SelectSeq(calls, IsCapacityChanged)

\* C22: a restaurant update (the owner's or the admin's) answered 200 that
\* changed the capacity create resolves for the restaurant has made exactly
\* two restaurantCapacityChanged calls carrying the new capacity, the first
\* to the global channel and the second to the restaurant's room; one that
\* left that capacity as it was has made none.
C22_CapacityChangePublished ==
  [][\A p \in Procs :
       (/\ pc[p] \in {"restaurant_save", "adminRestaurant_save"}
        /\ pc'[p] = "done" /\ resp'[p] = 200) =>
         LET rid == req[p].restaurant
             old == resolveCapacity(restaurants[rid])
             new == resolveCapacity(restaurants'[rid])
             calls == CapacityChanged(emits'[p])
         IN IF new # old
              THEN /\ Len(calls) = 2
                   /\ calls[1].room = "noroom" /\ calls[2].room = rid
                   /\ \A i \in 1..2 : calls[i].capacity = Number(new)
              ELSE calls = <<>>]_vars

\* the capacity of the contract: tablesPerSlot when a number, else capacity
\* when a number, else 10
ContractCapacity(restaurant) ==
  IF restaurant.tablesPerSlot.type = "number" THEN restaurant.tablesPerSlot.val
  ELSE IF restaurant.capacity.type = "number" THEN restaurant.capacity.val
  ELSE 10

\* C23: with requests handled one after another, the capacity a create or an
\* update-details request in flight compares its count with is the contract's
\* capacity of the restaurant (its tablesPerSlot when that is a number, 0
\* included), and it is positive.
C23_CapacityIsContract ==
  \A p \in Procs :
    pc[p] \in {"create_findOne", "create_count", "create_insert",
               "update_count", "update_save"} =>
      LET rid == IF req[p].op = "create" THEN req[p].restaurant
                 ELSE loc[p].restaurant
      IN /\ loc[p].capacity = ContractCapacity(restaurants[rid])
         /\ loc[p].capacity > 0

\* the available figure the availability endpoint answers for a slot in the
\* current state
AvailableNow(rid, date, time) ==
  Max(0, availabilityCapacity(restaurants[rid])
         - countDocuments(reservations, rid, date, time))

\* C25: with requests handled one after another, a create past its duplicate
\* check (its user holds no non-cancelled reservation in the slot) is
\* answered 201 exactly when the availability endpoint reports available > 0
\* for that slot in the same state, whatever the restaurant's tablesPerSlot.
C25_CreateAgreesWithAvailability ==
  [][\A p \in Procs : CreateEnds(p) =>
       (resp'[p] = 201 <=>
          AvailableNow(req[p].restaurant, req[p].date, req[p].time) > 0)]_vars

\* an update-details request in flight keeps its reservation in the slot it
\* is in: date and time are absent or those of the reservation
KeepsSlot(p) ==
  /\ req[p].date \in {Absent, Target(p).date}
  /\ req[p].time \in {Absent, Target(p).time}

\* C24: with requests handled one after another, an update-details request
\* that keeps its non-cancelled reservation in a slot booked exactly to
\* capacity (a new partySize, or the current date and time sent again) is
\* not refused: the count passes it on to the save, and the save is answered
\* 200 with the slot booked as before.
C24_OwnTableNotCounted ==
  [][\A p \in Procs :
       (/\ pc[p] \in UpdatePcs /\ pc'[p] # pc[p]
        /\ Target(p).status # "cancelled" /\ KeepsSlot(p)
        /\ Cardinality(Booked(reservations, Target(p).restaurant,
                              Target(p).date, Target(p).time))
             = CapacityOf(Target(p).restaurant))
       => /\ pc[p] = "update_findRestaurant" => pc'[p] = "update_count"
          /\ pc[p] = "update_count" => pc'[p] = "update_save"
          /\ pc[p] = "update_save" =>
               /\ resp'[p] = 200
               /\ Cardinality(Booked(reservations', Target(p).restaurant,
                                     Target(p).date, Target(p).time))
                    = CapacityOf(Target(p).restaurant)]_vars

\* C24 witness: an update-details request that carried a new partySize and
\* the reservation's own time was answered 200; the partySize is stored and
\* the slot is booked exactly to capacity
C24_Witness ==
  \E p \in Procs : \E r \in reservations :
    /\ pc[p] = "done" /\ req[p].op = "update" /\ resp[p] = 200
    /\ r.id = req[p].id /\ r.status # "cancelled"
    /\ req[p].time = r.time /\ req[p].partySize = NewPartySize
    /\ r.partySize = NewPartySize
    /\ Cardinality(Booked(reservations, r.restaurant, r.date, r.time))
         = CapacityOf(r.restaurant)

\* the response a create request must get in the current state by the order
\* of its checks, 0 standing for no refusal
CreateRefusal(u, rid, d, t, n) ==
  IF rid = Absent \/ d = Absent \/ t = Absent \/ n = 0 THEN 400
  ELSE IF rid = "bad" THEN 400
  ELSE IF ~RestaurantExists(rid) THEN 404
  ELSE IF \E r \in Booked(reservations, rid, d, t) : r.user = u THEN 400
  ELSE IF Cardinality(Booked(reservations, rid, d, t)) >= CapacityOf(rid) THEN 409
  ELSE 0

\* C28: with requests handled one after another, a create request is refused
\* by the first of its checks that fails, in the order missing field or
\* malformed restaurant id (400), restaurant absent (404), duplicate slot of
\* the same user (400), slot full (409): its first step can only answer the
\* 400 or the 404 of the first two or go on, the duplicate lookup can only
\* answer 400 when the user holds the slot, full or not, and go on otherwise,
\* and the count answers 409 exactly when the slot is full.
C28_CreateCheckOrder ==
  /\ \A p \in Procs : \A u \in RaceUsers :
       \A rid \in RestaurantIds \cup {NoRestaurantId, BadId} :
         \A d \in Dates : \A t \in RaceTimes : \A n \in PartySizes \cup {0} :
           Free(p) =>
             LET code == CreateRefusal(u, rid, d, t, n)
                 early == rid = BadId \/ n = 0 \/ ~RestaurantExists(rid)
             IN /\ ENABLED createReservation_findRestaurant(p, u, rid, d, t, n)
                /\ ~ENABLED (/\ createReservation_findRestaurant(p, u, rid, d, t, n)
                             /\ ~(IF early
                                    THEN pc'[p] = "done" /\ resp'[p] = code
                                    ELSE pc'[p] = "create_findOne"))
  /\ \A p \in Procs :
       pc[p] \in {"create_findOne", "create_count"} =>
         LET code == CreateRefusal(req[p].user, req[p].restaurant, req[p].date,
                                   req[p].time, req[p].partySize)
             step == createReservation_findOne(p) \/ createReservation_countDocuments(p)
         IN /\ ENABLED step
            /\ ~ENABLED (/\ step
                         /\ ~(IF pc[p] = "create_findOne"
                                THEN IF code = 400
                                       THEN pc'[p] = "done" /\ resp'[p] = 400
                                       ELSE pc'[p] = "create_count"
                                ELSE IF code = 409
                                       THEN pc'[p] = "done" /\ resp'[p] = 409
                                       ELSE pc'[p] = "create_insert"))

\* C28 witness: a create by a user who holds a non-cancelled reservation in a
\* slot that is full was answered 400
C28_Witness ==
  \E p \in Procs :
    LET booked == Booked(reservations, req[p].restaurant, req[p].date, req[p].time)
    IN /\ pc[p] = "done" /\ req[p].op = "create" /\ resp[p] = 400
       /\ req[p].restaurant \in RestaurantIds
       /\ RestaurantExists(req[p].restaurant)
       /\ \E r \in booked : r.user = req[p].user
       /\ Cardinality(booked) >= CapacityOf(req[p].restaurant)

\* C29: an update-details request answered 200 has changed, of the
\* reservation it names, the date, the time and the partySize, each to the
\* value the request carried and only when it carried one; the status, user,
\* restaurant and id of that reservation and every other stored reservation
\* are as before, so the booked count of every slot other than the old and
\* the new one is as before.
C29_UpdateFrame ==
  [][\A p \in Procs :
       (pc[p] = "update_save" /\ pc'[p] = "done" /\ resp'[p] = 200) =>
         \E r \in reservations : \E r2 \in reservations' :
           /\ r.id = req[p].id /\ r2.id = r.id
           /\ reservations' \ {r2} = reservations \ {r}
           /\ r2.status = r.status /\ r2.user = r.user
           /\ r2.restaurant = r.restaurant
           /\ r2.date = (IF req[p].date = Absent THEN r.date ELSE req[p].date)
           /\ r2.time = (IF req[p].time = Absent THEN r.time ELSE req[p].time)
           /\ r2.partySize = (IF req[p].partySize = 0 THEN r.partySize
                              ELSE req[p].partySize)
           /\ \A d \in Dates : \A t \in Times :
                (<<d, t>> \notin {<<r.date, r.time>>, <<r2.date, r2.time>>}) =>
                  Booked(reservations', r.restaurant, d, t)
                    = Booked(reservations, r.restaurant, d, t)]_vars

\* C29 witness: an update-details request that carried a time and no
\* partySize was answered 200 on a cancelled reservation, which has that
\* time, the partySize it was created with and is still cancelled, next to a
\* reservation of another time
C29_Witness ==
  \E p \in Procs : \E r \in reservations : \E other \in reservations :
    /\ pc[p] = "done" /\ req[p].op = "update" /\ resp[p] = 200
    /\ r.id = req[p].id /\ r.status = "cancelled"
    /\ req[p].time = r.time /\ req[p].partySize = 0 /\ r.partySize = 2
    /\ other.id # r.id /\ other.time # r.time

\* C26: in every reachable state every stored reservation is for a restaurant
\* that has a document.
C26_NoOrphanReservation ==
  \A r \in reservations : RestaurantExists(r.restaurant)

\* C27: once the webhook has answered a checkout.session.completed event for
\* a session, the payment createPayment stored for that session is completed.
C27_PaidSessionCompletesPayment ==
  \A p \in Procs :
    (/\ pc[p] = "done" /\ req[p].op = "webhook" /\ resp[p] = 200
     /\ req[p].event = "checkout.session.completed") =>
      \A s \in sessions : \A d \in payments :
        (s.id = req[p].session /\ d.id = s.payment) => d.status = "completed"

\* the status codes of the responses to reservation requests
ReservationCodes == {200, 201, 400, 403, 404, 409, 500}

\* a reservation request is being handled
InFlight(p) == pc[p] \notin {"idle", "done"} /\ req[p].op \in ReservationOps

\* C21: every reservation request (create, list, cancel, update-details,
\* update-status) that is being handled has sent no response yet, the step
\* that ends it sends one of 200, 201, 400, 403, 404, 409, 500, and it does
\* end, also when a store operation it awaits fails or its transport throws;
\* until then its next step can be taken whatever the other requests are
\* doing.
C21_OneResponseNoEscape ==
  /\ [](\A p \in Procs :
          /\ InFlight(p) => (resp[p] = 0 /\ ENABLED Continue(p, Transports))
          /\ (pc[p] = "done" /\ req[p].op \in ReservationOps) =>
               resp[p] \in ReservationCodes)
  /\ \A p \in Procs : InFlight(p) ~> pc[p] = "done"

\* C21 witness: a create whose store operation failed was answered 500 while
\* another request is suspended at its await, after a cancel that was stored
\* although every delivery of its event failed
C21_Witness ==
  \E p \in Procs : \E q \in Procs :
    /\ pc[p] = "done" /\ req[p].op = "create" /\ req[p].rejected /\ resp[p] = 500
    /\ pc[q] \in ReservationPcs
    /\ \E r \in reservations : r.status = "cancelled"
====
